---- MODULE Spec2Model ----
(***************************************************************************)
(* tap-exchangeratesapi: the day-by-day replication loop of                *)
(* src/tap_exchangeratesapi/__init__.py (main, do_sync, request, giveup,   *)
(* parse_response) as a state machine.                                     *)
(*                                                                         *)
(* Date strings 'YYYY-MM-DD' are tuples <<y, m, d>>; a datetime is the     *)
(* proleptic Gregorian ordinal of its day (datetime.toordinal), which is   *)
(* all that line 77 compares: strptime gives midnight, so                  *)
(* strptime(next_date) <= utcnow() iff ordinal(next_date) <= ordinal(now). *)
(* Floats are counted in tenths (1.0 is 10).                               *)
(***************************************************************************)
EXTENDS Integers, Sequences, FiniteSets, TLC

VARIABLES
    pc,           \* position of the process
    config,       \* args.config: start_date, exchanges, schemaless
    args_state,   \* args.state: {} or {start_date: ...}
    now,          \* datetime.utcnow(), as the ordinal of the current UTC day
    state,        \* do_sync's local `state`
    next_date,    \* do_sync's local `next_date`
    prev_schema,  \* do_sync's local `prev_schema`
    schema,       \* the module-level `schema`
    i,            \* index of the exchange the for loop is at (1-based)
    tries,        \* attempts of the current request() that have failed
    out,          \* the output stream (singer messages written so far)
    visited,      \* history: the dates whose iteration began, in order
    fetches,      \* history: <<date, exchange index>> of each successful fetch
    completed,    \* history: dates whose iteration ran to line 109, over all runs
    first_start,  \* history: start date of the first run that reached do_sync
    failed_on,    \* history: the date being walked when the last fatal error was raised
    run,          \* history: number of the process run
    exit_code,    \* <<>> while the process runs, then <<its exit status>>
    ticked,       \* history kept by SpecClock: midnight passed during the walk
    payload,      \* parse_response alone: the payload as the provider sent it
    r_obj,        \* parse_response alone: the payload object handed to it
    flattened,    \* parse_response alone: what the last call returned
    first_flat,   \* parse_response alone: what the first call returned
    calls         \* parse_response alone: calls made

sync_vars == <<pc, config, args_state, now, state, next_date, prev_schema,
               schema, i, tries, out, visited, fetches, completed, first_start,
               failed_on, run, exit_code, ticked>>

parse_vars == <<payload, r_obj, flattened, first_flat, calls>>

vars == <<sync_vars, parse_vars>>

-----------------------------------------------------------------------------
(* Bounds *)

\* the window of calendar days is DayZero .. DayZero + MaxDays
MaxDays == 1
\* processes started one after the other in SpecResume
MaxRuns == 2
\* calls of parse_response on one payload object in SpecParse
MaxCalls == 2

(* Program constants *)

\* max_tries=5
MaxTries == 5
\* flattened[r['base']] = 1.0, in tenths
BaseRate == 10

-----------------------------------------------------------------------------
(* The calendar: datetime.strptime / strftime / timedelta(days=1) *)

IsLeap(y) == (y % 4 = 0) /\ ((y % 100 # 0) \/ (y % 400 = 0))

DaysInMonth(y, m) ==
    IF m = 2 THEN (IF IsLeap(y) THEN 29 ELSE 28)
    ELSE IF m \in {4, 6, 9, 11} THEN 30 ELSE 31

\* days before January 1st of year y
DaysBeforeYear(y) ==
    LET p == y - 1 IN p * 365 + (p \div 4) - (p \div 100) + (p \div 400)

RECURSIVE DaysBeforeMonth(_, _)
DaysBeforeMonth(y, m) ==
    IF m = 1 THEN 0 ELSE DaysBeforeMonth(y, m - 1) + DaysInMonth(y, m - 1)

\* datetime.strptime(s, DATE_FORMAT), as an ordinal
Strptime(s) == DaysBeforeYear(s[1]) + DaysBeforeMonth(s[1], s[2]) + s[3]

Years == 2023..2025

\* datetime.strftime(DATE_FORMAT) of the day with ordinal n, over the days
\* of Years, computed once
StrftimeTable ==
    [n \in (DaysBeforeYear(2023) + 1)..DaysBeforeYear(2026) |->
        LET y == CHOOSE yy \in Years :
                     DaysBeforeYear(yy) < n /\ n <= DaysBeforeYear(yy + 1)
            r == n - DaysBeforeYear(y)
            m == CHOOSE mm \in 1..12 :
                     DaysBeforeMonth(y, mm) < r
                     /\ r <= DaysBeforeMonth(y, mm) + DaysInMonth(y, mm)
        IN  <<y, m, r - DaysBeforeMonth(y, m)>>]

Strftime(n) == StrftimeTable[n]

\* a mutant of NextDate: the walker steps two days
NextDateSkips(d) == Strftime(Strptime(d) + 2)

\* line 108: (strptime(next_date) + timedelta(days=1)).strftime(DATE_FORMAT)
NextDate(d) == Strftime(Strptime(d) + 1)

\* line 131: strptime_with_tz(start_date).date().strftime(DATE_FORMAT)
NormalizeDate(d) == Strftime(Strptime(d))

\* line 32: time.strftime('%Y-%m-%dT%H:%M:%SZ', time.strptime(date, DATE_FORMAT))
Timestamp(d) == LET n == Strftime(Strptime(d)) IN <<n[1], n[2], n[3], 0, 0, 0>>

-----------------------------------------------------------------------------
(* Inputs *)

\* the last two days of February 2024: the window crosses the leap day
DayZero == <<2024, 2, 28>>
WindowDays == Strptime(DayZero)..(Strptime(DayZero) + MaxDays)
WindowDates == {Strftime(n) : n \in WindowDays}

\* the empty dict {}
EmptyDict == [x \in {} |-> x]

Exchange(b, syms) == [base |-> b, symbols |-> syms]
USD == Exchange("USD", <<"USD", "EUR">>)
GBP == Exchange("GBP", <<"USD", "EUR">>)
ExchangeLists == {<<>>, <<USD>>, <<GBP, USD>>}

\* the sets of currency codes the provider reports rates for
RateSets == {{}, {"EUR"}, {"USD", "EUR"}}

\* the response body of a 200 for (date, base): the provider chooses the
\* rates it reports and the date it reports them for
RateOf(c) == IF c = "USD" THEN BaseRate ELSE 9
Payloads(d, b) ==
    LET dates == {d, Strftime(Strptime(d) + 1)}
    IN  {[base |-> b, date |-> pd, rates |-> [c \in cs |-> RateOf(c)]] :
            pd \in dates, cs \in RateSets}

\* status codes of a failed response
ErrorStatuses == {403, 429, 503}

-----------------------------------------------------------------------------
(* Messages of the output stream *)

SchemaMsg(s) == [type |-> "SCHEMA", stream |-> "exchange_rate", schema |-> s,
                 key_properties |-> "date"]
RecordMsg(r) == [type |-> "RECORD", stream |-> "exchange_rate", record |-> r]
StateMsg(s) == [type |-> "STATE", value |-> s]

-----------------------------------------------------------------------------
(* The schema, lines 36-46 and 91-94 *)

DateTimeString == [type |-> "string", format |-> "date-time"]
NullableNumber == [type |-> <<"null", "number">>]

\* lines 36-46: the module-level schema at process start
InitSchema == [type |-> "object", properties |-> [k \in {"date"} |-> DateTimeString]]

\* a mutant of AddProperties: a sighting rebuilds the properties from the payload
AddPropertiesReplaces(s, rates) ==
    [s EXCEPT !.properties =
        [k \in {"date"} \cup DOMAIN rates |->
            IF k = "date" THEN DateTimeString ELSE NullableNumber]]

\* lines 92-94: a property for every rate that is not one yet
AddProperties(s, rates) ==
    [s EXCEPT !.properties =
        [k \in DOMAIN s.properties \cup DOMAIN rates |->
            IF k \in DOMAIN s.properties THEN s.properties[k] ELSE NullableNumber]]

\* a mutant of parse_response: line 31 is missing
parse_response_no_base(r) ==
    [k \in DOMAIN r.rates \cup {"date"} |->
        IF k = "date" THEN Timestamp(r.date) ELSE r.rates[k]]

\* lines 29-33: rates, plus the base at 1.0, plus date as a timestamp
parse_response(r) ==
    [k \in DOMAIN r.rates \cup {r.base, "date"} |->
        IF k = "date" THEN Timestamp(r.date)
        ELSE IF k = r.base THEN BaseRate
        ELSE r.rates[k]]

\* a mutant of giveup: no status gives up
giveup_never(status) == FALSE

\* a mutant of giveup: every status gives up
giveup_always(status) == TRUE

\* lines 49-53
giveup(status) == ~(status = 429 \/ status >= 500)

\* a mutant of SchemaChanged: the schema is never written
SchemaChangedNever(s, prev) == FALSE

\* line 97
SchemaChanged(s, prev) == s # prev

\* a mutant of DateMatches: the guard of line 100 is dropped
DateMatchesAlways(p, d) == TRUE

\* line 100
DateMatches(p, d) == p.date = d

\* a mutant of RecordOf: the schemaless flag is not looked at
RecordOfParsed(p) == parse_response(p)

\* lines 102-105: the record written for a payload
RecordOf(p) == IF config.schemaless THEN p ELSE parse_response(p)

\* a mutant of Emitted: the record is written before the schema
EmittedRecordFirst(p, s) ==
    (IF DateMatches(p, next_date) THEN <<RecordMsg(RecordOf(p))>> ELSE <<>>)
    \o (IF SchemaChanged(s, prev_schema) THEN <<SchemaMsg(s)>> ELSE <<>>)

\* lines 96-105: the messages one fetched payload adds to the stream;
\* s is the schema after lines 92-94
Emitted(p, s) ==
    (IF SchemaChanged(s, prev_schema) THEN <<SchemaMsg(s)>> ELSE <<>>)
    \o (IF DateMatches(p, next_date) THEN <<RecordMsg(RecordOf(p))>> ELSE <<>>)

-----------------------------------------------------------------------------
(* The process *)

\* parse_response is not under study here
NoParse ==
    /\ payload = EmptyDict
    /\ r_obj = EmptyDict
    /\ flattened = EmptyDict
    /\ first_flat = EmptyDict
    /\ calls = 0

Init ==
    /\ pc = "main"
    /\ config \in [start_date : WindowDates, exchanges : ExchangeLists,
                   schemaless : BOOLEAN]
    /\ args_state \in {EmptyDict} \cup {[start_date |-> d] : d \in WindowDates}
    /\ now \in WindowDays
    /\ state = EmptyDict
    /\ next_date = <<>>
    /\ prev_schema = EmptyDict
    /\ schema = InitSchema
    /\ i = 0
    /\ tries = 0
    /\ out = <<>>
    /\ visited = <<>>
    /\ fetches = <<>>
    /\ completed = {}
    /\ first_start = <<>>
    /\ failed_on = <<>>
    /\ run = 1
    /\ exit_code = <<>>
    /\ ticked = FALSE
    /\ NoParse

\* lines 127-128: a checkpoint was supplied; main updates its own local state
\* and returns without calling do_sync; the process exits with 0
MainWithState ==
    /\ pc = "main"
    /\ args_state # EmptyDict
    /\ pc' = "returned"
    /\ UNCHANGED <<config, args_state, now, state, next_date, prev_schema,
                   schema, i, tries, out, visited, fetches, completed,
                   first_start, failed_on, run>>
    /\ exit_code' = <<0>>
    /\ UNCHANGED <<ticked, parse_vars>>

\* a mutant of write_state: the state is not written
write_state_skipped(o, st) == o

\* a mutant of write_state: the state goes to the head of the stream
write_state_first(o, st) == <<StateMsg(st)>> \o o

\* lines 115 and 118: singer.write_state(state)
write_state(o, st) == Append(o, StateMsg(st))

\* a mutant of InitialCheckpoint: the checkpoint starts a day late
InitialCheckpointAhead(d) == [start_date |-> NextDate(d)]

\* line 72
InitialCheckpoint(d) == [start_date |-> d]

\* lines 130-131: state is {} here, so the configured start_date is taken
StartDate == NormalizeDate(config.start_date)

\* lines 129-133 and 69-74: no checkpoint; do_sync is entered
MainNoState ==
    /\ pc = "main"
    /\ args_state = EmptyDict
    /\ state' = InitialCheckpoint(StartDate)
    /\ next_date' = StartDate
    /\ prev_schema' = EmptyDict
    /\ first_start' = IF run = 1 THEN StartDate ELSE first_start
    /\ pc' = "while"
    /\ UNCHANGED <<config, args_state, now, schema, i, tries, out, visited,
                   fetches, completed, run, failed_on>>
    /\ UNCHANGED <<exit_code, ticked, parse_vars>>

\* a mutant of InRange: the day that has begun is not walked
InRangeExclusive(d) == Strptime(d) < now

\* line 77
InRange(d) == Strptime(d) <= now

\* line 77 true, line 78: an iteration for next_date begins
LoopEnter ==
    /\ pc = "while"
    /\ InRange(next_date)
    /\ visited' = Append(visited, next_date)
    /\ i' = 1
    /\ tries' = 0
    /\ pc' = IF Len(config.exchanges) = 0 THEN "advance" ELSE "for"
    /\ UNCHANGED <<config, args_state, now, state, next_date, prev_schema,
                   schema, out, fetches, completed, first_start, failed_on, run>>
    /\ UNCHANGED <<exit_code, ticked, parse_vars>>

\* line 77 false, lines 118-119: final state write, normal exit
LoopExit ==
    /\ pc = "while"
    /\ ~InRange(next_date)
    /\ out' = write_state(out, state)
    /\ pc' = "done"
    /\ UNCHANGED <<config, args_state, now, state, next_date, prev_schema,
                   schema, i, tries, visited, fetches, completed, first_start, failed_on,
                   run>>
    /\ exit_code' = <<0>>
    /\ UNCHANGED <<ticked, parse_vars>>

\* lines 85-89: the bodies the provider may answer the current request with
Responses ==
    IF pc = "for" THEN Payloads(next_date, config.exchanges[i].base) ELSE {}

\* a mutant of AfterExchange: the for loop ends after its first exchange
AfterExchangeBreaks(k) == "advance"

\* line 78: the for loop takes the next exchange, or is over
AfterExchange(k) == IF k = Len(config.exchanges) THEN "advance" ELSE "for"

\* lines 85-105 with a 200 response carrying payload p
FetchOk(p) ==
    /\ pc = "for"
    /\ p \in Responses
    /\ schema' = AddProperties(schema, p.rates)
    /\ out' = out \o Emitted(p, schema')
    /\ fetches' = Append(fetches, <<next_date, i>>)
    /\ tries' = 0
    /\ i' = i + 1
    /\ pc' = AfterExchange(i)
    /\ UNCHANGED <<config, args_state, now, state, next_date, prev_schema,
                   visited, completed, first_start, failed_on, run>>
    /\ UNCHANGED <<exit_code, ticked, parse_vars>>

\* lines 56-65: raise_for_status raised an HTTPError with this status and
\* backoff waits and calls again
FetchRetry(status) ==
    /\ pc = "for"
    /\ status \in ErrorStatuses
    /\ ~giveup(status)
    /\ tries + 1 < MaxTries
    /\ tries' = tries + 1
    /\ UNCHANGED <<pc, config, args_state, now, state, next_date, prev_schema,
                   schema, i, out, visited, fetches, completed, first_start, failed_on,
                   run>>
    /\ UNCHANGED <<exit_code, ticked, parse_vars>>

\* lines 56-65 and 111-116: the HTTPError leaves request(); the handler
\* writes the state and exits with -1
FetchFatal(status) ==
    /\ pc = "for"
    /\ status \in ErrorStatuses
    /\ giveup(status) \/ tries + 1 = MaxTries
    /\ tries' = tries + 1
    /\ out' = write_state(out, state)
    /\ failed_on' = next_date
    /\ pc' = "failed"
    /\ UNCHANGED <<config, args_state, now, state, next_date, prev_schema,
                   schema, i, visited, fetches, completed, first_start, run>>
    /\ exit_code' = <<-1>>
    /\ UNCHANGED <<ticked, parse_vars>>

\* lines 49-51: a RequestException without a response (connection failure);
\* giveup reads error.response.text of None, the AttributeError is no
\* RequestException and leaves do_sync unhandled; lines 140-142 log it and
\* raise it again, the interpreter exits with 1
FetchNoResponse ==
    /\ pc = "for"
    /\ tries' = tries + 1
    /\ pc' = "crashed"
    /\ UNCHANGED <<config, args_state, now, state, next_date, prev_schema,
                   schema, i, out, visited, fetches, completed, first_start, failed_on,
                   run>>
    /\ exit_code' = <<1>>
    /\ UNCHANGED <<ticked, parse_vars>>

\* a mutant of Checkpoint: the checkpoint names the day after the completed one
CheckpointAhead(d) == [start_date |-> NextDate(d)]

\* line 107
Checkpoint(d) == [start_date |-> d]

\* lines 107-109: all exchanges of next_date are done
Advance ==
    /\ pc = "advance"
    /\ state' = Checkpoint(next_date)
    /\ next_date' = NextDate(next_date)
    /\ prev_schema' = schema
    /\ completed' = completed \cup {next_date}
    /\ pc' = "while"
    /\ UNCHANGED <<config, args_state, now, schema, i, tries, out, visited,
                   fetches, first_start, failed_on, run>>
    /\ UNCHANGED <<exit_code, ticked, parse_vars>>

\* the UTC clock passes midnight; the process reads the clock at line 77 only
Tick ==
    /\ pc \in {"main", "while"}
    /\ now < Strptime(DayZero) + MaxDays
    /\ now' = now + 1
    /\ UNCHANGED <<pc, config, args_state, state, next_date, prev_schema,
                   schema, i, tries, out, visited, fetches, completed,
                   first_start, failed_on, run>>
    /\ UNCHANGED <<exit_code, ticked, parse_vars>>

Next ==
    \/ MainWithState
    \/ MainNoState
    \/ LoopEnter
    \/ LoopExit
    \/ \E p \in Responses : FetchOk(p)
    \/ \E status \in ErrorStatuses : FetchRetry(status)
    \/ \E status \in ErrorStatuses : FetchFatal(status)
    \/ FetchNoResponse
    \/ Advance
    \/ Tick

Spec == Init /\ [][Next]_vars

-----------------------------------------------------------------------------
(* Runs one after the other: the next process is started with the start
   date the failed one wrote in its STATE message *)

\* the start_date of the STATE message that ends the stream
WrittenCheckpoint == out[Len(out)].value.start_date

Rerun ==
    /\ pc = "failed"
    /\ run < MaxRuns
    /\ run' = run + 1
    /\ config' = [config EXCEPT !.start_date = WrittenCheckpoint]
    /\ args_state' = EmptyDict
    /\ pc' = "main"
    /\ state' = EmptyDict
    /\ next_date' = <<>>
    /\ prev_schema' = EmptyDict
    /\ schema' = InitSchema
    /\ i' = 0
    /\ tries' = 0
    /\ out' = <<>>
    /\ visited' = <<>>
    /\ fetches' = <<>>
    /\ UNCHANGED <<now, completed, first_start, failed_on>>
    /\ exit_code' = <<>>
    /\ UNCHANGED <<ticked, parse_vars>>

NextResume == Next \/ Rerun

SpecResume == Init /\ [][NextResume]_vars

-----------------------------------------------------------------------------
(* parse_response alone, called again and again on one payload object *)

\* the bodies handed to parse_response: any rates over three codes, the
\* base among them or not, each rate 0.9 or 1.0
ParsePayloads ==
    {[base |-> b, date |-> d, rates |-> rates] :
        b \in {"USD", "GBP"}, d \in WindowDates,
        rates \in UNION {[cs -> {9, BaseRate}] : cs \in SUBSET {"USD", "EUR", "GBP"}}}

InitParse ==
    /\ pc = "parse_response"
    /\ config = [start_date |-> DayZero, exchanges |-> <<>>, schemaless |-> FALSE]
    /\ args_state = EmptyDict
    /\ now = Strptime(DayZero)
    /\ state = EmptyDict
    /\ next_date = <<>>
    /\ prev_schema = EmptyDict
    /\ schema = InitSchema
    /\ i = 0
    /\ tries = 0
    /\ out = <<>>
    /\ visited = <<>>
    /\ fetches = <<>>
    /\ completed = {}
    /\ first_start = <<>>
    /\ failed_on = <<>>
    /\ run = 1
    /\ exit_code = <<>>
    /\ ticked = FALSE
    /\ payload \in ParsePayloads
    /\ r_obj = payload
    /\ flattened = EmptyDict
    /\ first_flat = EmptyDict
    /\ calls = 0

\* lines 29-33: flattened is r['rates'] itself, so the call also changes
\* the payload object
Flatten ==
    /\ pc = "parse_response"
    /\ calls < MaxCalls
    /\ flattened' = parse_response(r_obj)
    /\ r_obj' = [r_obj EXCEPT !.rates = flattened']
    /\ first_flat' = IF calls = 0 THEN flattened' ELSE first_flat
    /\ calls' = calls + 1
    /\ UNCHANGED <<sync_vars, payload>>

NextParse == Flatten

SpecParse == InitParse /\ [][NextParse]_vars

-----------------------------------------------------------------------------
(* The walk under a clock that is watched: whether midnight passed after
   do_sync was entered is kept in `ticked`.  The program takes its next
   step whenever it has one (a single sequential thread whose requests
   return), which is the fairness of SpecClock; the clock stops at the end
   of the window, so it does not outrun the walker for ever. *)

InitClock ==
    /\ Init
    /\ Len(config.exchanges) <= 1

TickObserved ==
    /\ pc \in {"main", "while"}
    /\ now < Strptime(DayZero) + MaxDays
    /\ now' = now + 1
    /\ ticked' = (ticked \/ pc = "while")
    /\ UNCHANGED <<pc, config, args_state, state, next_date, prev_schema,
                   schema, i, tries, out, visited, fetches, completed,
                   first_start, failed_on, run, exit_code, parse_vars>>

Program ==
    \/ MainWithState
    \/ MainNoState
    \/ LoopEnter
    \/ LoopExit
    \/ \E p \in Responses : FetchOk(p)
    \/ \E status \in ErrorStatuses : FetchRetry(status)
    \/ \E status \in ErrorStatuses : FetchFatal(status)
    \/ FetchNoResponse
    \/ Advance

NextClock == Program \/ TickObserved

SpecClock == InitClock /\ [][NextClock]_vars /\ WF_vars(Program)

-----------------------------------------------------------------------------
(* Helpers of the properties *)

Running == pc \in {"while", "for", "advance"}
InDoSync == pc \in {"while", "for", "advance", "done", "failed", "crashed"}

Positions(type) == {k \in 1..Len(out) : out[k].type = type}

\* positions of the messages a step appended, of one type
Appended(type) == {k \in (Len(out) + 1)..Len(out') : out'[k].type = type}

Max(S) == CHOOSE x \in S : \A y \in S : y <= x

-----------------------------------------------------------------------------
(* C1: in a run that meets no fatal error, the dates whose iteration began
   are exactly start date, start date + 1 day, ... in this order, one day
   apart, none twice; and when the run ends normally they reach today (the
   UTC day at the check that ended the loop) and go no further. *)
C1_WalkCoversRange ==
    /\ InDoSync =>
         \A k \in 1..Len(visited) :
            visited[k] = Strftime(Strptime(config.start_date) + k - 1)
    /\ pc = "done" =>
         Len(visited) = IF now < Strptime(config.start_date) THEN 0
                        ELSE now - Strptime(config.start_date) + 1

\* a finished walk over the 28th and the 29th of February
C1_Witness ==
    pc = "done" /\ visited = <<<<2024, 2, 28>>, <<2024, 2, 29>>>>

(* C2: started with a checkpoint {start_date: C}, the run performs the sync
   and its walk starts at C; started without one, the walk starts at the
   configured start_date. *)
C2_CheckpointOverridesConfig ==
    pc # "main" =>
        /\ InDoSync
        /\ first_start = IF args_state # EmptyDict THEN args_state.start_date
                         ELSE config.start_date

(* C3, as claimed: the STATE written on the fatal path names the last date
   strictly before the failing date D that completed, never D itself. *)
C3_CheckpointBeforeFailedDate ==
    pc = "failed" =>
        /\ WrittenCheckpoint # next_date
        /\ WrittenCheckpoint \in completed
        /\ Strptime(WrittenCheckpoint) < Strptime(next_date)

(* C3, amended: the STATE written on the fatal path names the day before
   the failing date D, which completed, when D is not the first date of the
   run; when D is the first date, nothing completed and it names the start
   date of the run, which is D. *)
C3_CheckpointOnFatal ==
    pc = "failed" =>
        /\ out[Len(out)].type = "STATE"
        /\ next_date = visited[Len(visited)]
        /\ IF Len(visited) = 1
           THEN WrittenCheckpoint = config.start_date /\ WrittenCheckpoint = next_date
           ELSE /\ WrittenCheckpoint = visited[Len(visited) - 1]
                /\ WrittenCheckpoint \in completed
                /\ Strptime(WrittenCheckpoint) = Strptime(next_date) - 1

\* a fatal error on the second date of a run
C3_Witness ==
    pc = "failed" /\ Len(visited) = 2 /\ WrittenCheckpoint = visited[1]

(* C4, as claimed: a STATE message {start_date: D} is in the stream once
   the exchanges of a walked date D are all done. *)
C4_StatePerCompletedDate ==
    Running =>
        \A d \in completed :
            \E k \in 1..Len(out) : out[k] = StateMsg([start_date |-> d])

(* C4, amended: completing a date D only assigns {start_date: D} to the
   checkpoint held in memory; no STATE message is written while the walk
   runs, and exactly one is written per run, at its end (normal or fatal
   HTTP error), carrying the checkpoint held then. *)
C4_OneStateAtEnd ==
    /\ Running => Positions("STATE") = {}
    /\ pc \in {"done", "failed"} =>
         /\ Positions("STATE") = {Len(out)}
         /\ out[Len(out)].value = state
    /\ (pc = "while" /\ visited # <<>>) =>
         state = [start_date |-> visited[Len(visited)]]

\* two dates completed, the run ended, one STATE message
C4_Witness ==
    pc = "done" /\ Cardinality(completed) = 2 /\ Cardinality(Positions("STATE")) = 1

(* C5: a run that fails on date D writes a checkpoint C with C <= D; the
   run then started at C begins at a date no later than D, and walks D
   again when it ends normally; in every run all dates from the first run's
   start date up to the date being walked have been walked to completion
   by some run. *)
C5_Resumption ==
    /\ pc = "failed" => Strptime(WrittenCheckpoint) <= Strptime(failed_on)
    /\ (run > 1 /\ InDoSync) =>
         /\ Strptime(config.start_date) <= Strptime(failed_on)
         /\ pc = "done" => \E k \in 1..Len(visited) : visited[k] = failed_on
    /\ InDoSync =>
         \A n \in Strptime(first_start)..(Strptime(next_date) - 1) :
            Strftime(n) \in completed

\* the second run ends normally having walked the checkpoint and then the
\* date the first run failed on
C5_Witness ==
    /\ run = 2
    /\ pc = "done"
    /\ Len(visited) = 2
    /\ visited[2] = failed_on

(* C6: a step writes a SCHEMA message only if it is the first date/exchange
   step of the run or its payload adds a currency code to the schema. *)
C6_SchemaOnlyWhenChanged ==
    [][(pc = "for" /\ Appended("SCHEMA") # {}) =>
          \/ fetches = <<>>
          \/ DOMAIN schema'.properties # DOMAIN schema.properties]_vars

(* C7: when a step writes a RECORD, its payload's rate codes are all
   properties of a SCHEMA message earlier in the stream, and the last
   SCHEMA message of the stream is the schema held in memory. *)
C7_SchemaBeforeRecord ==
    [][\A p \in Responses :
          (FetchOk(p) /\ p.date = next_date) =>
              LET n == Len(out')
                  before == {j \in 1..(n - 1) : out'[j].type = "SCHEMA"}
              IN  /\ out'[n].type = "RECORD"
                  /\ before # {}
                  /\ \E j \in before :
                        DOMAIN p.rates \subseteq DOMAIN out'[j].schema.properties
                  /\ out'[Max(before)].schema = schema']_vars

\* a RECORD written by a step that wrote no SCHEMA
C7_Witness ==
    \E k \in 2..Len(out) :
        /\ out[k].type = "RECORD"
        /\ out[k - 1].type = "RECORD"
        /\ Cardinality(DOMAIN schema.properties) = 3

(* C8: on the normal path and on the fatal HTTP path the stream ends with
   the STATE message, after every SCHEMA and RECORD message of the run. *)
C8_StateIsLast ==
    pc \in {"done", "failed"} =>
        /\ out # <<>>
        /\ out[Len(out)].type = "STATE"
        /\ \A k \in Positions("SCHEMA") \cup Positions("RECORD") : k < Len(out)

\* a fatal end after a schema and a record were written
C8_Witness ==
    /\ pc = "failed"
    /\ Positions("SCHEMA") # {}
    /\ Positions("RECORD") # {}
    /\ out[Len(out)].type = "STATE"

(* C9: a fetch whose payload date differs from the walked date writes no
   RECORD and raises nothing: the loop goes on to the next exchange or to
   the advance to the next day; a RECORD is written only for a payload
   whose date is the walked date. *)
C9_DateMatchGuard ==
    [][\A p \in Responses :
          FetchOk(p) =>
              /\ p.date # next_date =>
                    /\ Appended("RECORD") = {}
                    /\ pc' \in {"for", "advance"}
              /\ Appended("RECORD") # {} => p.date = next_date]_vars

\* a run that walked two dates, fetched every day and wrote no record
C9_Witness ==
    /\ pc = "done"
    /\ Len(visited) = 2
    /\ Len(fetches) >= 2
    /\ Positions("RECORD") = {}

(* C10: a step never removes a schema property nor changes the type of one,
   date is always a property, every property a step adds has type
   [null, number], and every rate code of a fetched payload is a property
   afterwards. *)
C10_SchemaMonotone ==
    [][/\ "date" \in DOMAIN schema'.properties
       /\ DOMAIN schema.properties \subseteq DOMAIN schema'.properties
       /\ \A k \in DOMAIN schema.properties :
             schema'.properties[k] = schema.properties[k]
       /\ \A k \in DOMAIN schema'.properties \ DOMAIN schema.properties :
             schema'.properties[k] = NullableNumber
       /\ \A p \in Responses :
             FetchOk(p) => DOMAIN p.rates \subseteq DOMAIN schema'.properties]_vars

\* the schema grew in two steps to date, USD and EUR
C10_Witness ==
    /\ Cardinality(DOMAIN schema.properties) = 3
    /\ \E k \in Positions("SCHEMA") :
          Cardinality(DOMAIN out[k].schema.properties) = 2

(* C11: a response with a status that is neither 429 nor >= 500 is not
   retried: the attempt it answers is the last of its fetch (the only one
   when it answers the first), no fetch follows, the checkpoint held in
   memory is written as the STATE message and the process exits with a
   non-zero status. *)
C11_NonRetryableIsFatal ==
    [][/\ \A status \in ErrorStatuses :
            (/\ ~(status = 429 \/ status >= 500)
             /\ FetchRetry(status) \/ FetchFatal(status)) =>
                /\ pc' = "failed"
                /\ tries' = tries + 1
                /\ fetches' = fetches
                /\ out' = Append(out, StateMsg(state))
                /\ exit_code' # <<>> /\ exit_code' # <<0>>
       /\ pc = "failed" => (pc' = "failed" /\ fetches' = fetches /\ tries' = tries)
      ]_vars

\* the second fetch of a run ended fatally at its first attempt
C11_Witness ==
    /\ pc = "failed"
    /\ tries = 1
    /\ Len(fetches) = 1
    /\ exit_code = <<-1>>
    /\ out[Len(out)] = StateMsg(state)

(* C12: a response with status 429 or >= 500 is followed by another attempt
   of the same fetch while fewer than 5 attempts were made, and by the fatal
   path (STATE written, non-zero exit) when it answers the fifth; no fetch
   is attempted more than 5 times; a success, after four failures too, lets
   the run go on. *)
C12_BoundedRetry ==
    [][/\ \A status \in ErrorStatuses :
            (/\ status = 429 \/ status >= 500
             /\ FetchRetry(status) \/ FetchFatal(status)) =>
                IF tries + 1 < 5
                THEN /\ pc' = "for"
                     /\ tries' = tries + 1
                     /\ i' = i
                     /\ out' = out
                     /\ exit_code' = <<>>
                ELSE /\ pc' = "failed"
                     /\ tries' = 5
                     /\ out' = Append(out, StateMsg(state))
                     /\ exit_code' # <<>> /\ exit_code' # <<0>>
       /\ tries' <= 5
       /\ \A p \in Responses :
            FetchOk(p) =>
                /\ pc' \in {"for", "advance"}
                /\ tries' = 0
                /\ exit_code' = <<>>
      ]_vars

\* four failed attempts of the second fetch of a date, the fifth is due
C12_Witness ==
    /\ pc = "for"
    /\ tries = 4
    /\ i = 2
    /\ exit_code = <<>>

(* C13: a request exception that carries no response ends the process only
   after the fifth attempt of its fetch and with the STATE message
   written. *)
C13_TransportFailureRetried ==
    pc = "crashed" =>
        /\ tries = 5
        /\ out # <<>>
        /\ out[Len(out)].type = "STATE"

(* C14: the successful fetches of a run are, date by date in the order
   walked, one for each configured exchange in the configured order; a date
   is completed with exactly one fetch for every exchange, whatever the
   fetches before it on that date wrote. *)
C14_EveryExchangeFetched ==
    LET n == Len(config.exchanges)
    IN  InDoSync =>
            /\ \A k \in 1..Len(fetches) :
                  fetches[k] = <<visited[((k - 1) \div n) + 1], ((k - 1) % n) + 1>>
            /\ \A d \in completed :
                  Cardinality({k \in 1..Len(fetches) : fetches[k][1] = d}) = n
            /\ Len(fetches) = IF pc \in {"while", "done"}
                              THEN n * Len(visited)
                              ELSE n * (Len(visited) - 1) + i - 1

\* two dates completed with two exchanges each, the first fetch of the
\* first date having written no record
C14_Witness ==
    /\ pc = "done"
    /\ Len(fetches) = 4
    /\ Len(config.exchanges) = 2
    /\ Cardinality(Positions("RECORD")) = 1
    /\ out[Len(out) - 1].type = "RECORD"

(* C15, as claimed: the record parse_response makes of a payload has the
   keys of its rates, its base and date, every rate with the value the
   payload gives it, the base at 1.0 and date at time zero; a second call on
   the same payload returns the same record. *)
C15_FlattenKeepsEveryRate ==
    calls >= 1 =>
        /\ DOMAIN first_flat = DOMAIN payload.rates \cup {payload.base, "date"}
        /\ \A c \in DOMAIN payload.rates : first_flat[c] = payload.rates[c]
        /\ first_flat[payload.base] = 10
        /\ first_flat["date"] =
              <<payload.date[1], payload.date[2], payload.date[3], 0, 0, 0>>
        /\ calls >= 2 => flattened = first_flat

(* C15, amended: as claimed, but the rates that keep their value are those
   of the codes other than the base; the base maps to 1.0 also when the
   payload's rates give it another value. *)
C15_FlattenKeepsOtherRates ==
    calls >= 1 =>
        /\ DOMAIN first_flat = DOMAIN payload.rates \cup {payload.base, "date"}
        /\ \A c \in DOMAIN payload.rates \ {payload.base} :
              first_flat[c] = payload.rates[c]
        /\ first_flat[payload.base] = 10
        /\ first_flat["date"] =
              <<payload.date[1], payload.date[2], payload.date[3], 0, 0, 0>>
        /\ calls >= 2 => flattened = first_flat

\* two calls on a payload whose rates hold the base and another code
C15_Witness ==
    /\ calls = 2
    /\ payload.base \in DOMAIN payload.rates
    /\ Cardinality(DOMAIN payload.rates) = 2
    /\ Cardinality(DOMAIN flattened) = 3
    /\ flattened = first_flat

(* C16: with schemaless set, every RECORD a step writes is the payload it
   fetched, with its base, date and rates fields, the rates holding the
   codes the provider sent and nothing more. *)
C16_SchemalessRecordIsPayload ==
    [][\A p \in Responses :
          (FetchOk(p) /\ config.schemaless) =>
              \A k \in Appended("RECORD") :
                 /\ DOMAIN out'[k].record = {"base", "date", "rates"}
                 /\ DOMAIN out'[k].record.rates = DOMAIN p.rates
                 /\ out'[k].record = p]_vars

\* a schemaless record for base GBP with rates for USD and EUR
C16_Witness ==
    /\ config.schemaless
    /\ \E k \in Positions("RECORD") :
          /\ out[k].record.base = "GBP"
          /\ DOMAIN out[k].record.rates = {"USD", "EUR"}

(* C17: a run that ends normally having walked the single date start date =
   today, with one exchange whose payload had that date, has written
   exactly a SCHEMA message with the properties date and the payload's rate
   codes, then a RECORD message, then the STATE message {start_date: that
   date}. *)
C17_SingleDateStream ==
    (/\ pc = "done"
     /\ Len(config.exchanges) = 1
     /\ Strptime(config.start_date) = now
     /\ Positions("RECORD") # {}) =>
        /\ visited = <<config.start_date>>
        /\ Len(out) = 3
        /\ out[1].type = "SCHEMA"
        /\ out[2].type = "RECORD"
        /\ out[3] = StateMsg([start_date |-> config.start_date])
        /\ LET props == DOMAIN out[1].schema.properties
               rec == out[2].record
           IN  IF config.schemaless
               THEN props = {"date"} \cup DOMAIN rec.rates
               ELSE /\ props \subseteq DOMAIN rec
                    /\ DOMAIN rec \subseteq props \cup {config.exchanges[1].base}

\* the run of the spec's first example: typed mode, base USD, two rates
C17_Witness ==
    /\ pc = "done"
    /\ ~config.schemaless
    /\ Len(config.exchanges) = 1
    /\ Strptime(config.start_date) = now
    /\ Len(out) = 3
    /\ out[2].type = "RECORD"
    /\ DOMAIN out[1].schema.properties = {"date", "USD", "EUR"}

(* C18: the bound of the walk is the clock read when each iteration is
   about to begin: an iteration begins exactly when the candidate date is
   not after the current UTC day and the loop ends at the first check that
   finds it after; so a day that began while the run was in progress is
   walked in the same run, and at normal exit the last date walked is the
   current day.  With requests that return and a clock that stops running
   ahead, the process ends. *)
C18_LiveUpperBound ==
    /\ [][/\ (pc = "while" /\ pc' # "while") =>
                IF Strptime(next_date) <= now
                THEN pc' \in {"for", "advance"} /\ visited' = Append(visited, next_date)
                ELSE pc' = "done" /\ visited' = visited
           /\ pc' = "done" =>
                /\ Strptime(next_date') > now'
                /\ visited' # <<>> => visited'[Len(visited')] = Strftime(now')]_vars
    /\ <>(pc \in {"done", "failed", "crashed", "returned"})

\* midnight passed after the walk had begun on the 28th, and the 29th was
\* walked by the same run
C18_Witness ==
    /\ pc = "done"
    /\ ticked
    /\ visited = <<<<2024, 2, 28>>, <<2024, 2, 29>>>>
    /\ Positions("RECORD") # {}

(* C19: a payload whose date differs from the date being walked causes no
   schema change: the step that processes it adds no property to the
   schema and writes no SCHEMA message, besides writing no RECORD. *)
C19_MismatchLeavesSchema ==
    [][\A p \in Responses :
          (FetchOk(p) /\ p.date # next_date) =>
              /\ schema' = schema
              /\ Appended("SCHEMA") = {}
              /\ Appended("RECORD") = {}]_vars

(* C20: in typed mode every key of every RECORD in the stream is a declared
   property of the SCHEMA message written most recently before it,
   whatever the exchanges are. *)
C20_RecordKeysDeclared ==
    ~config.schemaless =>
        \A k \in Positions("RECORD") :
            /\ \E j \in Positions("SCHEMA") : j < k
            /\ LET last == Max({j \in Positions("SCHEMA") : j < k})
               IN  DOMAIN out[k].record \subseteq DOMAIN out[last].schema.properties

====
